---- MODULE Spec2Model ----
(***************************************************************************)
(* Session Bridge & Sync Engine of the BlueBubbles GTK client.             *)
(*                                                                         *)
(* The model covers the local cache store (src/src/storage.rs), the async  *)
(* task bridge (src/src/utils.rs) and the orchestration done by the main   *)
(* window (src/src/ui/main_window.rs): one conversation load at window     *)
(* start and up to NumCreate "new chat" requests, each running on the      *)
(* worker pool and reporting back over its own channel.                    *)
(* The functions of the remote client (src/src/api/client.rs) and the       *)
(* query of the cache store are also followed one call at a time, against  *)
(* every answer of the modelled server, in UnitSpec.                       *)
(***************************************************************************)
EXTENDS Integers, Sequences, FiniteSets, TLC

\* ------------------------------------------------------------------ bounds

\* Number of "Start" clicks of the new-chat dialog the model follows.
NumCreate == 2
\* The wall clock (epoch seconds since the program started) reads 1..MaxClock.
MaxClock == 2
\* Longest item array the server returns for the chat query.
MaxBatch == 2
\* Number of cache store calls that fail (open, execute, commit, query).
MaxFaults == 1

\* ------------------------------------------------------------- constants

\* get_chats(Some(200)) in main_window.rs
ListLimit == 200

LoadTask == 0
CreateTasks == 1..NumCreate
Tasks == {LoadTask} \cup CreateTasks
NoTask == -1

\* ------------------------------------------------------------ JSON items

\* A field of a JSON object is absent, holds a non-string value, or a string.
Absent == "<absent>"
JNull == "<null>"

Ids == {"1", "2"}
\* Names in the byte order SQLite's BINARY collation gives them.
NameOrder == <<"Alice", "Bob", "Chat">>
Names == {NameOrder[i] : i \in 1..Len(NameOrder)}

Item(id, name, display_name, title, displayName) ==
    [id |-> id, name |-> name, display_name |-> display_name,
     title |-> title, displayName |-> displayName]

\* The items the modelled server answers the chat query with.
ServerItems ==
    { Item("1", "Alice", Absent, Absent, Absent),
      Item("1", Absent, Absent, Absent, Absent),
      Item(Absent, "Alice", Absent, Absent, Absent) }

Conversation(id, name) == [id |-> id, name |-> name]

\* v.as_str(): Some for a string, None for anything else
IsStr(v) == v # Absent /\ v # JNull

\* item.get("id").and_then(|v| v.as_str()).unwrap_or_default()
ItemId(item) == IF IsStr(item.id) THEN item.id ELSE ""

\* get("name").or_else(display_name).or_else(title).or_else(displayName)
\* picks the first key that is present; as_str is applied to that one only.
ItemName(item) ==
    LET first == IF item.name # Absent THEN item.name
                 ELSE IF item.display_name # Absent THEN item.display_name
                 ELSE IF item.title # Absent THEN item.title
                 ELSE item.displayName
    IN IF IsStr(first) THEN first ELSE "Chat"

\* Variant: every item is projected, whatever its id.
ProjectKeepAll(items) ==
    [i \in 1..Len(items) |-> Conversation(ItemId(items[i]), ItemName(items[i]))]

RECURSIVE Project(_)
\* The projection loop of ApiClient::conversations: items without id are dropped.
Project(items) ==
    IF items = <<>> THEN <<>>
    ELSE LET it == Head(items)
             rest == Project(Tail(items))
         IN IF ItemId(it) # "" THEN <<Conversation(ItemId(it), ItemName(it))>> \o rest
            ELSE rest

RECURSIVE SeqsUpTo(_, _)
SeqsUpTo(S, n) ==
    IF n = 0 THEN {<<>>}
    ELSE LET shorter == SeqsUpTo(S, n - 1)
         IN shorter \cup {Append(s, x) : s \in {q \in shorter : Len(q) = n - 1}, x \in S}

\* Every item array the server may return.
Batches == SeqsUpTo(ServerItems, MaxBatch)

\* What create_chat may return on success.
CreateResults == {Conversation("1", "Bob"), Conversation("2", "Chat")}

FetchErrors == {"HTTP 500"}

\* The error strings the cache store functions return (e.to_string()).
StorageErrors == {"unable to open database file", "database is locked"}

\* ---------------------------------------------------------- cache store

\* serde_json::to_string(v): the stored text of a raw document
ToJsonString(v) == <<v>>
\* SQL NULL in raw_json
NullRaw == <<>>

\* No raw documents given to upsert_chats (raws = None)
NoRaws == <<"none">>
SomeRaws(items) == <<"some", items>>

\* raws.and_then(|r| r.get(idx)).map(to_string)
RawAt(raws, i) ==
    IF raws = NoRaws THEN NullRaw
    ELSE IF i <= Len(raws[2]) THEN ToJsonString(raws[2][i])
    ELSE NullRaw

Row(id, name, updated_at, raw_json) ==
    [id |-> id, name |-> name, updated_at |-> updated_at, raw_json |-> raw_json]

\* Variant: ON CONFLICT(id) DO NOTHING, an existing record is kept as it is.
UpsertRowKeepExisting(rows, c, now, raw) ==
    IF \E r \in rows : r.id = c.id THEN rows
    ELSE rows \cup {Row(c.id, c.name, now, raw)}

\* Variant: a plain INSERT into a table without the primary key on id.
UpsertRowNoConflict(rows, c, now, raw) ==
    rows \cup {Row(c.id, c.name, now, raw)}

\* Variant: the table is emptied before the record is written.
UpsertRowReplaceTable(rows, c, now, raw) == {Row(c.id, c.name, now, raw)}

\* Variant: ON CONFLICT(id) DO UPDATE keeps the stored document when the new
\* one is NULL (raw_json = COALESCE(excluded.raw_json, raw_json)).
UpsertRowKeepRaw(rows, c, now, raw) ==
    LET old == {r \in rows : r.id = c.id}
        kept == IF raw = NullRaw /\ old # {} THEN (CHOOSE r \in old : TRUE).raw_json
                ELSE raw
    IN (rows \ old) \cup {Row(c.id, c.name, now, kept)}

\* INSERT ... ON CONFLICT(id) DO UPDATE SET name, updated_at, raw_json
UpsertRow(rows, c, now, raw) ==
    {r \in rows : r.id # c.id} \cup {Row(c.id, c.name, now, raw)}

RECURSIVE UpsertFrom(_, _, _, _, _)
UpsertFrom(rows, chats, raws, now, i) ==
    IF i > Len(chats) THEN rows
    ELSE UpsertFrom(UpsertRow(rows, chats[i], now, RawAt(raws, i)), chats, raws, now, i + 1)

\* The table after a whole upsert_chats(chats, raws) at time now committed.
UpsertChats(rows, chats, raws, now) == UpsertFrom(rows, chats, raws, now, 1)

NameRank(n) == CHOOSE i \in 1..Len(NameOrder) : NameOrder[i] = n

\* Variant: ORDER BY updated_at ASC, name ASC
BeforeOldestFirst(a, b) ==
    \/ a.updated_at < b.updated_at
    \/ a.updated_at = b.updated_at /\ NameRank(a.name) < NameRank(b.name)

\* ORDER BY updated_at DESC, name ASC: a sorts strictly before b
Before(a, b) ==
    \/ a.updated_at > b.updated_at
    \/ a.updated_at = b.updated_at /\ NameRank(a.name) < NameRank(b.name)

RECURSIVE Orderings(_)
\* Every order the query may return the rows in (rows that tie may come either way).
Orderings(rows) ==
    IF rows = {} THEN {<<>>}
    ELSE UNION { {<<r>> \o s : s \in Orderings(rows \ {r})} :
                 r \in {x \in rows : \A y \in rows : ~Before(y, x)} }

\* LIMIT n: the first n rows; a negative n puts no bound on the rows returned.
Take(s, n) == IF n < 0 \/ Len(s) <= n THEN s ELSE SubSeq(s, 1, n)

\* SELECT id, name FROM chats ORDER BY ... LIMIT lim: the lists get_chats may return
GetChats(rows, lim) ==
    { [i \in 1..Len(Take(s, lim)) |-> Conversation(s[i].id, s[i].name)] : s \in Orderings(rows) }

\* The tables a previous run of the program may have left behind.
InitialCaches ==
    { {}, {Row("2", "Alice", 0, NullRaw)} }

\* ------------------------------------------------------------------ state

VARIABLES
    chats,      \* the committed rows of table chats, as every reader sees them
    chats0,     \* the table as the program found it at start
    clock,      \* the latest value SystemTime::now() returned, in epoch seconds
    mainPc,     \* "start" before show_main_window ran, "running" after
    pc,         \* per task: idle, scheduled, running, upsert, sent, delivered
    batch,      \* per task: the chats argument of its running upsert_chats call
    raws,       \* per task: the raws argument of its running upsert_chats call
    now,        \* per task: the timestamp its running upsert_chats call read
    idx,        \* per task: index of the next record its transaction writes
    tx,         \* per task: the rows as its open transaction sees them
    writer,     \* the task holding SQLite's write lock, or NoTask
    upsertRes,  \* per task: what its upsert_chats call returned and how far it got
    chan,       \* per task: the glib channel from the worker to the main context
    delivered,  \* per task: how many results the attached callback handled
    sidebar,    \* the list last given to Sidebar::set_items
    toasts,     \* the toasts added to the overlay, in order
    commitLog,  \* the upsert_chats calls that committed, in commit order
    faults,     \* how many cache store calls failed so far
    inline,     \* the blocking calls the main context made itself so far
    server,     \* how the remote server answers the requests of a client call
    call        \* a client or store function called on its own: inputs and progress

vars == <<chats, chats0, clock, mainPc, pc, batch, raws, now, idx, tx, writer,
          upsertRes, chan, delivered, sidebar, toasts, commitLog, faults,
          inline, server, call>>

Ok(items) == [ok |-> TRUE, items |-> items, err |-> ""]
Err(e) == [ok |-> FALSE, items |-> <<>>, err |-> e]

\* What upsert_chats returned: "none" (not called), "ok" or "failed", with the
\* number of records its transaction had written by then.
Outcome(res, written) == [res |-> res, written |-> written]

\* No function of the client or the store is called on its own.
NoServer == <<>>
NoCall == [op |-> "none"]

\* The orchestration before the main window opens.
NotStarted ==
    /\ clock = 1
    /\ mainPc = "start"
    /\ pc = [t \in Tasks |-> "idle"]
    /\ batch = [t \in Tasks |-> <<>>]
    /\ raws = [t \in Tasks |-> NoRaws]
    /\ now = [t \in Tasks |-> 0]
    /\ idx = [t \in Tasks |-> 1]
    /\ tx = [t \in Tasks |-> {}]
    /\ writer = NoTask
    /\ upsertRes = [t \in Tasks |-> Outcome("none", 0)]
    /\ chan = [t \in Tasks |-> <<>>]
    /\ delivered = [t \in Tasks |-> 0]
    /\ sidebar = <<>>
    /\ toasts = <<>>
    /\ commitLog = <<>>
    /\ faults = 0
    /\ inline = {}

\* The cache file as a previous run left it, and nothing started yet.
CoreInit ==
    /\ chats0 \in InitialCaches
    /\ chats = chats0
    /\ NotStarted

Init ==
    /\ CoreInit
    /\ server = NoServer
    /\ call = NoCall

\* A call into the cache store fails (no data directory, disk full, lock busy).
Fault == faults < MaxFaults /\ faults' = faults + 1

\* ------------------------------------------------------------ main context

\* storage::init(): CREATE TABLE IF NOT EXISTS chats. A table that exists keeps
\* its rows, a missing one is created without rows; a failure is dropped
\* (`let _ =`) and leaves the file as it was.
InitSchema(rows) == rows

\* The activate handler with saved credentials: storage::init(), then
\* show_main_window: the cached list is shown when it could be read and is not
\* empty, then the conversation load is handed to the bridge.
ShowMainWindow ==
    /\ mainPc = "start"
    /\ mainPc' = "running"
    /\ chats' = InitSchema(chats)
    /\ \/ \E cached \in GetChats(chats, ListLimit) :
            /\ sidebar' = IF cached # <<>> THEN cached ELSE sidebar
            /\ UNCHANGED faults
       \/ Fault /\ UNCHANGED sidebar             \* get_chats returned Err
    /\ inline' = inline \cup {"init", "get_chats"}   \* both called in the handler itself
    /\ pc' = [pc EXCEPT ![LoadTask] = "scheduled"]
    /\ UNCHANGED <<server, call, chats0, clock, batch, raws, now, idx, tx, writer,
                   upsertRes, chan, delivered, toasts, commitLog>>

\* start_btn clicked with a non-empty address: a create task is handed to the bridge.
ClickStart(t) ==
    /\ mainPc = "running"
    /\ t \in CreateTasks
    /\ pc[t] = "idle"
    /\ \A u \in CreateTasks : u < t => pc[u] # "idle"
    /\ pc' = [pc EXCEPT ![t] = "scheduled"]
    /\ UNCHANGED <<inline, server, call, chats, chats0, clock, mainPc, batch, raws, now, idx, tx, writer,
                   upsertRes, chan, delivered, sidebar, toasts, commitLog, faults>>

\* ------------------------------------------------------------ worker pool

\* RUNTIME.spawn: the worker pool starts polling the future.
WorkerStart(t) ==
    /\ pc[t] = "scheduled"
    /\ pc' = [pc EXCEPT ![t] = "running"]
    /\ UNCHANGED <<inline, server, call, chats, chats0, clock, mainPc, batch, raws, now, idx, tx, writer,
                   upsertRes, chan, delivered, sidebar, toasts, commitLog, faults>>

\* tx.send(res): the messages in the channel of t after the future's result went in.
Send(ch, res) == Append(ch, res)

\* upsert_chats returned: its locals are gone, the future drops the returned
\* value (`let _ =`) and ends with Ok of what the remote call gave, which the
\* bridge sends.
FinishUpsert(t, res, items, written) ==
    /\ upsertRes' = [upsertRes EXCEPT ![t] = Outcome(res, written)]
    /\ batch' = [batch EXCEPT ![t] = <<>>]
    /\ raws' = [raws EXCEPT ![t] = NoRaws]
    /\ now' = [now EXCEPT ![t] = 0]
    /\ idx' = [idx EXCEPT ![t] = 1]
    /\ tx' = [tx EXCEPT ![t] = {}]
    /\ writer' = IF writer = t THEN NoTask ELSE writer
    /\ chan' = [chan EXCEPT ![t] = Send(chan[t], Ok(items))]
    /\ pc' = [pc EXCEPT ![t] = "sent"]

\* Variant: the future hands upsert_chats to a task of its own and sends its
\* result at once, without waiting for the cache write.
CallUpsertDetached(t, cs, rs, opened) ==
    /\ \E n \in clock..MaxClock : clock' = n
    /\ batch' = [batch EXCEPT ![t] = cs]
    /\ raws' = [raws EXCEPT ![t] = rs]
    /\ now' = [now EXCEPT ![t] = clock']
    /\ chan' = [chan EXCEPT ![t] = Send(chan[t], Ok(cs))]
    /\ pc' = [pc EXCEPT ![t] = "upsert"]
    /\ UNCHANGED <<idx, tx, writer, upsertRes, faults>>
    /\ UNCHANGED <<inline, server, call, chats, chats0, mainPc, delivered, sidebar,
                   toasts, commitLog>>

\* The remote call of t returned Ok and the future calls upsert_chats(cs, rs):
\* it reads the clock, opens the connection and begins the transaction
\* (storage.rs 45-50). When the store cannot be opened the call returns Err.
CallUpsert(t, cs, rs, opened) ==
    /\ \E n \in clock..MaxClock : clock' = n
    /\ IF opened
       THEN /\ batch' = [batch EXCEPT ![t] = cs]
            /\ raws' = [raws EXCEPT ![t] = rs]
            /\ now' = [now EXCEPT ![t] = clock']
            /\ pc' = [pc EXCEPT ![t] = "upsert"]
            /\ UNCHANGED <<idx, tx, writer, upsertRes, chan, faults>>
       ELSE Fault /\ FinishUpsert(t, "failed", cs, 0)
    /\ UNCHANGED <<inline, server, call, chats, chats0, mainPc, delivered, sidebar, toasts, commitLog>>

\* client.conversations(..) returned Ok((items, raw)); main_window.rs 54-57.
ConversationsOk(items, opened) ==
    /\ pc[LoadTask] = "running"
    /\ CallUpsert(LoadTask, Project(items), SomeRaws(items), opened)

\* client.create_chat(..) returned Ok(conv); main_window.rs 174-177.
CreateChatOk(t, conv, opened) ==
    /\ t \in CreateTasks
    /\ pc[t] = "running"
    /\ CallUpsert(t, <<conv>>, NoRaws, opened)

\* The remote call of either task returned Err(e): the future ends with it.
RemoteErr(t, e) ==
    /\ pc[t] = "running"
    /\ chan' = [chan EXCEPT ![t] = Send(chan[t], Err(e))]
    /\ pc' = [pc EXCEPT ![t] = "sent"]
    /\ UNCHANGED <<inline, server, call, chats, chats0, clock, mainPc, batch, raws, now, idx, tx, writer,
                   upsertRes, delivered, sidebar, toasts, commitLog, faults>>

\* ------------------------------------------------- upsert_chats, by step

\* Variant: writers do not exclude each other.
CanWriteUnlocked(w, t) == TRUE

\* SQLite admits one write transaction at a time: t may write when no other
\* connection holds the write lock.
CanWrite(w, t) == w = NoTask \/ w = t

\* Variant: statements are auto-committed one by one, outside a transaction.
AfterExecuteAutocommit(committed, working) == working

\* What readers see after a statement ran inside an open transaction.
AfterExecute(committed, working) == committed
\* What readers see after tx.commit().
AfterCommit(committed, working) == working
\* What readers see after the transaction was dropped without commit.
AfterRollback(committed, working) == committed

\* The rows the transaction of t sees: the committed rows until its first write.
TxView(t) == IF idx[t] = 1 THEN chats ELSE tx[t]

\* One tx.execute of the loop: the record at idx is written inside the transaction.
UpsertExecute(t) ==
    /\ pc[t] = "upsert"
    /\ idx[t] <= Len(batch[t])
    /\ CanWrite(writer, t)
    /\ LET working == UpsertRow(TxView(t), batch[t][idx[t]], now[t], RawAt(raws[t], idx[t]))
       IN /\ tx' = [tx EXCEPT ![t] = working]
          /\ chats' = AfterExecute(chats, working)
    /\ writer' = t
    /\ idx' = [idx EXCEPT ![t] = idx[t] + 1]
    /\ UNCHANGED <<inline, server, call, chats0, clock, mainPc, pc, batch, raws, now, upsertRes, chan,
                   delivered, sidebar, toasts, commitLog, faults>>

\* tx.execute failed (the write lock was busy for too long, the disk is full,
\* ...): the `?` returns, the transaction is dropped and rolls back.
UpsertExecuteFail(t) ==
    /\ pc[t] = "upsert"
    /\ idx[t] <= Len(batch[t])
    /\ Fault
    /\ chats' = AfterRollback(chats, TxView(t))
    /\ FinishUpsert(t, "failed", batch[t], idx[t] - 1)
    /\ UNCHANGED <<inline, server, call, chats0, clock, mainPc, delivered, sidebar, toasts, commitLog>>

\* tx.commit() succeeded after the last record.
UpsertCommit(t) ==
    /\ pc[t] = "upsert"
    /\ idx[t] > Len(batch[t])
    /\ chats' = AfterCommit(chats, TxView(t))
    /\ commitLog' = Append(commitLog, [chats |-> batch[t], raws |-> raws[t], now |-> now[t]])
    /\ FinishUpsert(t, "ok", batch[t], idx[t] - 1)
    /\ UNCHANGED <<inline, server, call, chats0, clock, mainPc, delivered, sidebar, toasts, faults>>

\* tx.commit() failed: nothing of the batch is kept.
UpsertCommitFail(t) ==
    /\ pc[t] = "upsert"
    /\ idx[t] > Len(batch[t])
    /\ Fault
    /\ chats' = AfterRollback(chats, TxView(t))
    /\ FinishUpsert(t, "failed", batch[t], idx[t] - 1)
    /\ UNCHANGED <<inline, server, call, chats0, clock, mainPc, delivered, sidebar, toasts, commitLog>>

\* -------------------------------------------------- delivery to the consumer

\* Variant: the message stays in the channel, so the callback runs on it again.
ReceiveKeep(t) ==
    /\ chan[t] # <<>>
    /\ delivered[t] < 2
    /\ chan' = chan
    /\ delivered' = [delivered EXCEPT ![t] = delivered[t] + 1]
    /\ pc' = [pc EXCEPT ![t] = "delivered"]

\* The main context takes one message from the channel of t and runs the
\* attached callback on it.
Receive(t) ==
    /\ chan[t] # <<>>
    /\ chan' = [chan EXCEPT ![t] = Tail(chan[t])]
    /\ delivered' = [delivered EXCEPT ![t] = delivered[t] + 1]
    /\ pc' = [pc EXCEPT ![t] = "delivered"]

\* Variant: a failed load also empties the sidebar.
DeliverLoadClearsOnError ==
    /\ Receive(LoadTask)
    /\ LET res == Head(chan[LoadTask])
       IN IF res.ok
          THEN sidebar' = res.items /\ UNCHANGED toasts
          ELSE toasts' = Append(toasts, <<"Failed to load chats", res.err>>)
               /\ sidebar' = <<>>
    /\ UNCHANGED <<inline, server, call, chats, chats0, clock, mainPc, batch, raws, now, idx, tx, writer,
                   upsertRes, commitLog, faults>>

\* The callback attached to the load task's receiver (main_window.rs 62-68).
DeliverLoad ==
    /\ Receive(LoadTask)
    /\ LET res == Head(chan[LoadTask])
       IN IF res.ok
          THEN sidebar' = res.items /\ UNCHANGED toasts
          ELSE toasts' = Append(toasts, <<"Failed to load chats", res.err>>)
               /\ UNCHANGED sidebar
    /\ UNCHANGED <<inline, server, call, chats, chats0, clock, mainPc, batch, raws, now, idx, tx, writer,
                   upsertRes, commitLog, faults>>

\* Variant: the callback shows the created conversation alone, as the load
\* callback shows its result, without reading the cache.
DeliverCreateResultOnly(t) ==
    /\ t \in CreateTasks
    /\ Receive(t)
    /\ LET res == Head(chan[t])
       IN IF res.ok
          THEN sidebar' = res.items /\ UNCHANGED toasts
          ELSE toasts' = Append(toasts, <<"Failed to create chat", res.err>>)
               /\ UNCHANGED sidebar
    /\ UNCHANGED <<inline, server, call, chats, chats0, clock, mainPc, batch, raws, now, idx, tx, writer,
                   upsertRes, commitLog, faults>>

\* The callback attached to a create task's receiver (main_window.rs 183-197).
DeliverCreate(t) ==
    /\ t \in CreateTasks
    /\ Receive(t)
    /\ LET res == Head(chan[t])
       IN IF res.ok
          THEN /\ \/ (\E list \in GetChats(chats, ListLimit) : sidebar' = list)
                     /\ UNCHANGED faults
                  \/ Fault /\ sidebar' = res.items    \* get_chats returned Err
               /\ inline' = inline \cup {"get_chats"}  \* called in the callback itself
               /\ UNCHANGED toasts
          ELSE /\ toasts' = Append(toasts, <<"Failed to create chat", res.err>>)
               /\ UNCHANGED <<sidebar, faults, inline>>
    /\ UNCHANGED <<server, call, chats, chats0, clock, mainPc, batch, raws, now, idx, tx, writer,
                   upsertRes, commitLog>>

Next ==
    \/ ShowMainWindow
    \/ \E t \in CreateTasks : ClickStart(t)
    \/ \E t \in Tasks : WorkerStart(t)
    \/ \E items \in Batches, opened \in BOOLEAN : ConversationsOk(items, opened)
    \/ \E t \in CreateTasks, conv \in CreateResults, opened \in BOOLEAN :
            CreateChatOk(t, conv, opened)
    \/ \E t \in Tasks, e \in FetchErrors : RemoteErr(t, e)
    \/ \E t \in Tasks : UpsertExecute(t)
    \/ \E t \in Tasks : UpsertExecuteFail(t)
    \/ \E t \in Tasks : UpsertCommit(t)
    \/ \E t \in Tasks : UpsertCommitFail(t)
    \/ DeliverLoad
    \/ \E t \in CreateTasks : DeliverCreate(t)

Spec == Init /\ [][Next]_vars

\* The worker pool keeps polling spawned futures whose awaited call returned,
\* and the glib main loop keeps dispatching channel sources.
WorkerStep ==
    \/ \E t \in Tasks : WorkerStart(t)
    \/ \E items \in Batches, opened \in BOOLEAN : ConversationsOk(items, opened)
    \/ \E t \in CreateTasks, conv \in CreateResults, opened \in BOOLEAN :
            CreateChatOk(t, conv, opened)
    \/ \E t \in Tasks, e \in FetchErrors : RemoteErr(t, e)
    \/ \E t \in Tasks : UpsertExecute(t)
    \/ \E t \in Tasks : UpsertExecuteFail(t)
    \/ \E t \in Tasks : UpsertCommit(t)
    \/ \E t \in Tasks : UpsertCommitFail(t)

MainLoopStep ==
    \/ ShowMainWindow
    \/ DeliverLoad
    \/ \E t \in CreateTasks : DeliverCreate(t)

FairSpec == Spec /\ WF_vars(WorkerStep) /\ WF_vars(MainLoopStep)

\* --------------------------------------- client and store calls on their own
\*
\* ApiClient::ping and ApiClient::obtain_token are called by no window of the
\* program, and the parsing done by ApiClient::conversations and the query of
\* get_chats do not depend on the orchestration. They are followed here one
\* call at a time: the inputs and the server's answers are drawn at the start,
\* then the call runs request by request until it returns.

Range(s) == {s[i] : i \in 1..Len(s)}

None == <<>>
Some(v) == <<v>>

\* A URL as the pieces trim_end_matches('/') and ends_with("/api") tell apart.
BaseUrls ==
    { <<"https://h">>, <<"https://h", "/">>,
      <<"https://h", "/api">>, <<"https://h", "/api", "/", "/">> }

RECURSIVE trim_end_matches(_, _)
trim_end_matches(url, piece) ==
    IF url # <<>> /\ url[Len(url)] = piece
    THEN trim_end_matches(SubSeq(url, 1, Len(url) - 1), piece)
    ELSE url

ends_with(url, piece) == url # <<>> /\ url[Len(url)] = piece

\* ApiClient::base_api
base_api(base_url) ==
    LET trimmed == trim_end_matches(base_url, "/")
    IN IF ends_with(trimmed, "/api") THEN trimmed ELSE Append(trimmed, "/api")

\* The candidates array of ApiClient::ping
PingCandidates(base_url) ==
    << base_api(base_url) \o <<"/v1", "/ping">>,
       base_api(base_url) \o <<"/ping">>,
       trim_end_matches(base_url, "/") >>

\* The candidates array of ApiClient::obtain_token
TokenCandidates(base_url) ==
    << base_api(base_url) \o <<"/v1", "/login">>,
       base_api(base_url) \o <<"/v1", "/auth">>,
       base_api(base_url) \o <<"/login">>,
       base_api(base_url) \o <<"/auth">> >>

\* What req.send().await gives: Err(e) when the request did not complete,
\* Ok(resp) with a status and a body otherwise.
NoBody == [decodes |-> FALSE, token |-> Absent, accessToken |-> Absent]
TransportErr(e) == [completed |-> FALSE, status |-> 0, err |-> e, body |-> NoBody]
Response(status, body) == [completed |-> TRUE, status |-> status, err |-> "", body |-> body]

TransportErrors == {"operation timed out", "connection refused"}

\* The answers the modelled server gives to a GET of a ping candidate.
PingResponses ==
    {TransportErr(e) : e \in TransportErrors} \cup {Response(s, NoBody) : s \in {200, 404}}

\* resp.json::<Value>(): the body either fails to decode, or is JSON in which
\* `token` and `accessToken` are absent, hold a string, or hold something else.
TokenBody(token, accessToken) ==
    [decodes |-> TRUE, token |-> token, accessToken |-> accessToken]

\* The answers the modelled server gives to a POST of a login candidate.
TokenResponses ==
    {TransportErr("connection refused"), Response(401, NoBody), Response(200, NoBody)}
    \cup {Response(200, TokenBody(t, a)) : t \in {Absent, JNull, "T1"}, a \in {Absent, "T2"}}

\* resp.status().is_success()
is_success(status) == status >= 200 /\ status <= 299

\* format!("HTTP {}", resp.status())
HttpError(status) ==
    CASE status = 401 -> "HTTP 401 Unauthorized"
      [] status = 404 -> "HTTP 404 Not Found"
      [] status = 500 -> "HTTP 500 Internal Server Error"

DecodeError == "error decoding response body"
TokenNotFound == "Token not found in response"

\* What a call returned.
Returned(ok, value, err) == [ok |-> ok, value |-> value, err |-> err]

PingCall(base_url) ==
    [op |-> "ping", candidates |-> PingCandidates(base_url), i |-> 1,
     requests |-> <<>>, last_err |-> None, ret |-> None]

ObtainTokenCall(base_url) ==
    [op |-> "obtain_token", candidates |-> TokenCandidates(base_url), i |-> 1,
     requests |-> <<>>, last_err |-> None, ret |-> None]

\* Variant: only a success status counts as having reached the server.
PingReachedOnSuccess(resp) == resp.completed /\ is_success(resp.status)

\* match req.send().await { Ok(resp) => return ..., Err(e) => ... }
PingReached(resp) == resp.completed

\* Variant: the error of the first failed candidate is kept.
KeepFirstErr(last_err, e) == IF last_err = None THEN Some(e) ELSE last_err

\* last_err = Some(e)
SetLastErr(last_err, e) == Some(e)

\* Variant: a candidate that failed to complete is requested a second time
\* before the loop moves on.
PingSendRetry ==
    /\ call.op = "ping" /\ call.ret = None
    /\ call.i <= Len(call.candidates)
    /\ LET endpoint == call.candidates[call.i]
           resp == server[endpoint]
           sent == [call EXCEPT !.requests = Append(@, endpoint)]
           again == \A k \in 1..Len(call.requests) : call.requests[k] # endpoint
       IN call' = IF PingReached(resp)
                  THEN [sent EXCEPT !.ret = Some(Returned(TRUE, resp.status, ""))]
                  ELSE [sent EXCEPT !.last_err = SetLastErr(@, resp.err),
                                    !.i = IF again THEN @ ELSE @ + 1]
    /\ UNCHANGED <<server, chats, chats0, clock, mainPc, pc, batch, raws, now, idx, tx,
                   writer, upsertRes, chan, delivered, sidebar, toasts, commitLog,
                   faults, inline>>

\* One turn of the loop of ApiClient::ping: the next candidate is requested.
PingSend ==
    /\ call.op = "ping" /\ call.ret = None
    /\ call.i <= Len(call.candidates)
    /\ LET endpoint == call.candidates[call.i]
           resp == server[endpoint]
           sent == [call EXCEPT !.requests = Append(@, endpoint)]
       IN call' = IF PingReached(resp)
                  THEN [sent EXCEPT !.ret = Some(Returned(TRUE, resp.status, ""))]
                  ELSE [sent EXCEPT !.last_err = SetLastErr(@, resp.err), !.i = @ + 1]
    /\ UNCHANGED <<server, chats, chats0, clock, mainPc, pc, batch, raws, now, idx, tx,
                   writer, upsertRes, chan, delivered, sidebar, toasts, commitLog,
                   faults, inline>>

\* The loop of ApiClient::ping ended: Err(last_err.unwrap_or_else(..)).
PingExhausted ==
    /\ call.op = "ping" /\ call.ret = None
    /\ call.i > Len(call.candidates)
    /\ LET e == IF call.last_err = None THEN "Failed to reach any endpoint"
                ELSE call.last_err[1]
       IN call' = [call EXCEPT !.ret = Some(Returned(FALSE, 0, e))]
    /\ UNCHANGED <<server, chats, chats0, clock, mainPc, pc, batch, raws, now, idx, tx,
                   writer, upsertRes, chan, delivered, sidebar, toasts, commitLog,
                   faults, inline>>

\* Variant: `accessToken` is looked up before `token`.
TokenOfAccessFirst(body) ==
    IF IsStr(body.accessToken) THEN Some(body.accessToken)
    ELSE IF IsStr(body.token) THEN Some(body.token)
    ELSE None

\* json.get("token").and_then(as_str), then json.get("accessToken").and_then(as_str)
TokenOf(body) ==
    IF IsStr(body.token) THEN Some(body.token)
    ELSE IF IsStr(body.accessToken) THEN Some(body.accessToken)
    ELSE None

\* One turn of the loop of ApiClient::obtain_token: the next candidate is
\* requested and its response looked at.
ObtainTokenSend ==
    /\ call.op = "obtain_token" /\ call.ret = None
    /\ call.i <= Len(call.candidates)
    /\ LET endpoint == call.candidates[call.i]
           resp == server[endpoint]
           sent == [call EXCEPT !.requests = Append(@, endpoint)]
           continue(e) == [sent EXCEPT !.last_err = SetLastErr(@, e), !.i = @ + 1]
       IN call' =
            IF ~resp.completed THEN continue(resp.err)
            ELSE IF ~is_success(resp.status) THEN continue(HttpError(resp.status))
            ELSE IF ~resp.body.decodes THEN continue(DecodeError)
            ELSE IF TokenOf(resp.body) # None
                 THEN [sent EXCEPT !.ret = Some(Returned(TRUE, TokenOf(resp.body)[1], ""))]
                 ELSE continue(TokenNotFound)
    /\ UNCHANGED <<server, chats, chats0, clock, mainPc, pc, batch, raws, now, idx, tx,
                   writer, upsertRes, chan, delivered, sidebar, toasts, commitLog,
                   faults, inline>>

\* The loop of ApiClient::obtain_token ended: Err(last_err.unwrap_or_else(..)).
ObtainTokenExhausted ==
    /\ call.op = "obtain_token" /\ call.ret = None
    /\ call.i > Len(call.candidates)
    /\ LET e == IF call.last_err = None THEN "Failed to obtain token"
                ELSE call.last_err[1]
       IN call' = [call EXCEPT !.ret = Some(Returned(FALSE, "", e))]
    /\ UNCHANGED <<server, chats, chats0, clock, mainPc, pc, batch, raws, now, idx, tx,
                   writer, upsertRes, chan, delivered, sidebar, toasts, commitLog,
                   faults, inline>>

\* ------------------------------------------------ ApiClient::conversations

\* Longest item array in a chat query response followed on its own.
MaxItems == 2

\* The items of those responses: with an id, with the name under another key,
\* with a null name before a title, without id, with an empty id, with an id
\* that is no string.
ApiItems ==
    { Item("1", "Alice", Absent, Absent, Absent),
      Item("2", Absent, "Bob", Absent, Absent),
      Item("2", JNull, Absent, "Bob", Absent),
      Item(Absent, "Alice", Absent, Absent, Absent),
      Item("", "Bob", Absent, Absent, Absent),
      Item(JNull, "Alice", Absent, Absent, Absent) }

ItemArrays == SeqsUpTo(ApiItems, MaxItems)

\* A key of a JSON object: absent, holding an array, or holding something else.
JField(t, arr) == [t |-> t, arr |-> arr]
JFields ==
    {JField("absent", <<>>), JField("other", <<>>)} \cup {JField("array", a) : a \in ItemArrays}

\* A decoded body: a bare array, an object with its `chats` and `data` keys, or
\* any other JSON value.
Json(kind, arr, chatsKey, dataKey) ==
    [kind |-> kind, arr |-> arr, chats |-> chatsKey, data |-> dataKey]
JsonBodies ==
    {Json("array", a, JField("absent", <<>>), JField("absent", <<>>)) : a \in ItemArrays}
    \cup {Json("object", <<>>, c, d) : c \in JFields, d \in JFields}
    \cup {Json("other", <<>>, JField("absent", <<>>), JField("absent", <<>>))}

Undecodable == [decodes |-> FALSE, json |-> Json("other", <<>>, JField("absent", <<>>), JField("absent", <<>>))]
Decoded(json) == [decodes |-> TRUE, json |-> json]

\* The answers the modelled server gives to the chat query.
ConversationsResponses ==
    {TransportErr("connection refused"), Response(500, Undecodable), Response(200, Undecodable)}
    \cup {Response(200, Decoded(j)) : j \in JsonBodies}

\* Variant: only the bare array and the `chats` key are looked at.
UnwrapNoData(json) ==
    IF json.kind = "array" THEN json.arr
    ELSE IF json.kind = "object" /\ json.chats.t = "array" THEN json.chats.arr
    ELSE <<>>

\* json.as_array(), else json.get("chats") as array, else json.get("data") as
\* array, else Vec::new()
Unwrap(json) ==
    IF json.kind = "array" THEN json.arr
    ELSE IF json.kind = "object" /\ json.chats.t = "array" THEN json.chats.arr
    ELSE IF json.kind = "object" /\ json.data.t = "array" THEN json.data.arr
    ELSE <<>>

NoLists == [out |-> <<>>, items |-> <<>>]

\* The value ApiClient::conversations returns for a response to its request.
conversations(resp) ==
    IF ~resp.completed THEN Returned(FALSE, NoLists, resp.err)
    ELSE IF ~is_success(resp.status) THEN Returned(FALSE, NoLists, HttpError(resp.status))
    ELSE IF ~resp.body.decodes THEN Returned(FALSE, NoLists, DecodeError)
    ELSE LET items == Unwrap(resp.body.json)
         IN Returned(TRUE, [out |-> Project(items), items |-> items], "")

\* format!("{}/api/v1/chat/query?password={}", base, password)
QueryEndpoint(base_url) == trim_end_matches(base_url, "/") \o <<"/api", "/v1", "/chat", "/query">>

ConversationsCall(base_url) ==
    [op |-> "conversations", endpoint |-> QueryEndpoint(base_url), requests |-> <<>>,
     ret |-> None]

\* ApiClient::conversations: one POST of the query, then the parsing.
ConversationsReturn ==
    /\ call.op = "conversations" /\ call.ret = None
    /\ call' = [call EXCEPT !.requests = Append(@, call.endpoint),
                            !.ret = Some(conversations(server[call.endpoint]))]
    /\ UNCHANGED <<server, chats, chats0, clock, mainPc, pc, batch, raws, now, idx, tx,
                   writer, upsertRes, chan, delivered, sidebar, toasts, commitLog,
                   faults, inline>>

\* -------------------------------------------------- ApiClient::create_chat

\* a.or_else(|| b) on the results of two json.get(..): the first key that is
\* present, whatever it holds.
OrElse(a, b) == IF a # Absent THEN a ELSE b

\* .and_then(|v| v.as_str()).unwrap_or(default)
AsStrOr(v, default) == IF IsStr(v) THEN v ELSE default

\* The body of a chat creation response as far as create_chat reads it.
CreateBody(guid, id, name, displayName) ==
    [decodes |-> TRUE, guid |-> guid, id |-> id, name |-> name,
     displayName |-> displayName]

CreateUndecodable ==
    [decodes |-> FALSE, guid |-> Absent, id |-> Absent, name |-> Absent,
     displayName |-> Absent]

\* The answers the modelled server gives to the chat creation request.
CreateResponses ==
    {TransportErr("connection refused"), Response(500, CreateUndecodable),
     Response(200, CreateUndecodable)}
    \cup {Response(200, CreateBody(g, i, n, d)) :
            g \in {Absent, JNull, "", "G1"}, i \in {Absent, "", "1"},
            n \in {Absent, JNull, "Bob"}, d \in {Absent, "Al"}}

NoChatGuid == "No chat GUID in response"

\* The value ApiClient::create_chat returns for a response to its request.
create_chat(resp) ==
    IF ~resp.completed THEN Returned(FALSE, Conversation("", ""), resp.err)
    ELSE IF ~is_success(resp.status)
         THEN Returned(FALSE, Conversation("", ""), HttpError(resp.status))
    ELSE IF ~resp.body.decodes THEN Returned(FALSE, Conversation("", ""), DecodeError)
    ELSE LET id == AsStrOr(OrElse(resp.body.guid, resp.body.id), "")
             name == AsStrOr(OrElse(resp.body.name, resp.body.displayName), "Chat")
         IN IF id = "" THEN Returned(FALSE, Conversation("", ""), NoChatGuid)
            ELSE Returned(TRUE, Conversation(id, name), "")

\* format!("{}/api/v1/chat/new?password={}", base, password)
NewChatEndpoint(base_url) ==
    trim_end_matches(base_url, "/") \o <<"/api", "/v1", "/chat", "/new">>

CreateChatCall(base_url) ==
    [op |-> "create_chat", endpoint |-> NewChatEndpoint(base_url), requests |-> <<>>,
     ret |-> None]

\* ApiClient::create_chat: one POST, then the id and the name are read.
CreateChatReturn ==
    /\ call.op = "create_chat" /\ call.ret = None
    /\ call' = [call EXCEPT !.requests = Append(@, call.endpoint),
                            !.ret = Some(create_chat(server[call.endpoint]))]
    /\ UNCHANGED <<server, chats, chats0, clock, mainPc, pc, batch, raws, now, idx, tx,
                   writer, upsertRes, chan, delivered, sidebar, toasts, commitLog,
                   faults, inline>>

\* ----------------------------------------------------- ApiClient::contacts

\* An entry of the contacts response as far as contacts reads it.
Contact(displayName, name, address, phone, email, id) ==
    [displayName |-> displayName, name |-> name, address |-> address,
     phone |-> phone, email |-> email, id |-> id]

\* The entries of the modelled contacts responses: an address alone, with a
\* display name, name and phone under the second keys, nothing usable, a null
\* before a usable key, an empty address.
ContactItems ==
    { Contact(Absent, Absent, "+15551234567", Absent, Absent, Absent),
      Contact("Al", Absent, "+15551234567", Absent, Absent, Absent),
      Contact(Absent, "Bo", Absent, "+2", Absent, Absent),
      Contact("Al", Absent, Absent, Absent, Absent, Absent),
      Contact(Absent, Absent, JNull, "+2", Absent, Absent),
      Contact(JNull, "Bo", Absent, Absent, "bo@x", Absent),
      Contact(Absent, Absent, "", Absent, Absent, Absent) }

ContactArrays == SeqsUpTo(ContactItems, MaxItems)

\* The decoded bodies: a bare array, an object with or without an array under
\* `data`, or another JSON value.
ContactBodies ==
    {Json("array", a, JField("absent", <<>>), JField("absent", <<>>)) : a \in ContactArrays}
    \cup {Json("object", <<>>, JField("absent", <<>>), JField("array", a)) : a \in ContactArrays}
    \cup {Json("object", <<>>, JField("absent", <<>>), JField("other", <<>>)),
          Json("other", <<>>, JField("absent", <<>>), JField("absent", <<>>))}

\* The answers the modelled server gives to the contacts request.
ContactsResponses ==
    {TransportErr("connection refused"), Response(500, Undecodable), Response(200, Undecodable)}
    \cup {Response(200, Decoded(j)) : j \in ContactBodies}

ContactEntry(label, address) == [label |-> label, address |-> address]

\* The label as the pieces it is put together from: the address alone, or
\* format!("{} ({})", name, address).
Label(name, address) ==
    IF name = "" THEN <<address>> ELSE <<name, " (", address, ")">>

RECURSIVE ContactEntries(_)
\* The loop of ApiClient::contacts over the entries.
ContactEntries(list) ==
    IF list = <<>> THEN <<>>
    ELSE LET c == Head(list)
             name == AsStrOr(OrElse(c.displayName, c.name), "")
             address == AsStrOr(OrElse(OrElse(OrElse(c.address, c.phone), c.email), c.id), "")
             rest == ContactEntries(Tail(list))
         IN IF address # "" THEN <<ContactEntry(Label(name, address), address)>> \o rest
            ELSE rest

\* The value ApiClient::contacts returns for a response to its request.
contacts(resp) ==
    IF ~resp.completed THEN Returned(FALSE, <<>>, resp.err)
    ELSE IF ~is_success(resp.status) THEN Returned(FALSE, <<>>, HttpError(resp.status))
    ELSE IF ~resp.body.decodes THEN Returned(FALSE, <<>>, DecodeError)
    ELSE LET json == resp.body.json
             list == IF json.kind = "array" THEN json.arr
                     ELSE IF json.kind = "object" /\ json.data.t = "array" THEN json.data.arr
                     ELSE <<>>
         IN Returned(TRUE, ContactEntries(list), "")

\* format!("{}/api/v1/contact?password={}", base, password)
ContactEndpoint(base_url) == trim_end_matches(base_url, "/") \o <<"/api", "/v1", "/contact">>

ContactsCall(base_url) ==
    [op |-> "contacts", endpoint |-> ContactEndpoint(base_url), requests |-> <<>>,
     ret |-> None]

\* ApiClient::contacts: one GET, then the entries are read.
ContactsReturn ==
    /\ call.op = "contacts" /\ call.ret = None
    /\ call' = [call EXCEPT !.requests = Append(@, call.endpoint),
                            !.ret = Some(contacts(server[call.endpoint]))]
    /\ UNCHANGED <<server, chats, chats0, clock, mainPc, pc, batch, raws, now, idx, tx,
                   writer, upsertRes, chan, delivered, sidebar, toasts, commitLog,
                   faults, inline>>

\* ------------------------------------------------------ storage::get_chats

\* limit.unwrap_or(500)
DefaultLimit == 500
\* Largest limit below 2^63 passed to get_chats on its own.
MaxLimit == 3

\* A usize as hi * 2^63 + lo.
Usize(hi, lo) == [hi |-> hi, lo |-> lo]

\* `as i64`: a usize from 2^63 on wraps to a negative number (LIMIT treats
\* every negative number alike).
AsI64(n) == IF n.hi = 1 THEN -1 ELSE n.lo

LimitArgs ==
    {None} \cup {Some(Usize(0, n)) : n \in 0..MaxLimit} \cup {Some(Usize(1, 0))}

\* get_chats(limit) on table rows: the lists it may return when the file opens.
get_chats(rows, limit) ==
    GetChats(rows, AsI64(IF limit = None THEN Usize(0, DefaultLimit) ELSE limit[1]))

StoreIds == {"1", "2", "3"}

\* The tables of up to three records a run of the program may have built
\* (id is the primary key).
Tables ==
    { t \in SUBSET [id : StoreIds, name : {"Alice", "Bob"}, updated_at : 1..MaxClock,
                    raw_json : {NullRaw}] :
        \A r, q \in t : r.id = q.id => r = q }

GetChatsCall(limit) == [op |-> "get_chats", limit |-> limit, ret |-> None]

\* get_chats returns: the query's rows, or Err when the file cannot be opened.
GetChatsReturn ==
    /\ call.op = "get_chats" /\ call.ret = None
    /\ \/ \E list \in get_chats(chats, call.limit) :
            call' = [call EXCEPT !.ret = Some(Returned(TRUE, list, ""))]
       \/ \E e \in StorageErrors :
            call' = [call EXCEPT !.ret = Some(Returned(FALSE, <<>>, e))]
    /\ UNCHANGED <<server, chats, chats0, clock, mainPc, pc, batch, raws, now, idx, tx,
                   writer, upsertRes, chan, delivered, sidebar, toasts, commitLog,
                   faults, inline>>

\* ------------------------------------------------- ui::login, connect action

\* The text of an entry as the pieces trim(), starts_with() and is_empty() tell
\* apart: blanks, a scheme, the rest, a trailing slash.
Blank == " "
ServerEntries ==
    { <<>>, <<Blank>>, <<"h">>, <<Blank, "h", Blank>>,
      <<"https://", "h">>, <<"http://", "h", "/">> }
PassEntries == { <<>>, <<"p">> }

RECURSIVE trim_start(_)
trim_start(text) ==
    IF text # <<>> /\ Head(text) = Blank THEN trim_start(Tail(text)) ELSE text

\* str::trim
trim(text) == trim_end_matches(trim_start(text), Blank)

starts_with(text, piece) == text # <<>> /\ Head(text) = piece

\* utils::normalize_url
normalize_url(input) ==
    LET trimmed == trim(input)
    IN IF starts_with(trimmed, "http://") \/ starts_with(trimmed, "https://")
       THEN trimmed
       ELSE <<"https://">> \o trimmed

\* String::is_empty
is_empty(text) == text = <<>>

\* format!("{}/api/v1/server/info?password={}", url.trim_end_matches('/'), password)
ServerInfoUrl(url) == trim_end_matches(url, "/") \o <<"/api", "/v1", "/server", "/info">>

\* The answers to the GET of the server info: a URL without a host is never
\* sent, any other one is answered as a ping is.
ServerInfoResponses(url) ==
    IF url \in {<<"https://">>, <<"http://">>}
    THEN {TransportErr("builder error")}
    ELSE PingResponses

EnterBoth == "Please enter server URL and password."
SaveFailed == "Failed to save settings"
CouldNotValidate == "Could not validate server. Check URL and password."

\* What AppState holds after the callback's three assignments.
AppState(base_url, password) == [base_url |-> base_url, password |-> password, token |-> None]

\* The login window with its two entries filled in, before Connect is pressed.
ConnectCall(server_entry, pass_entry) ==
    [op |-> "connect", server_entry |-> server_entry, pass_entry |-> pass_entry,
     stage |-> "form", login_toasts |-> <<>>, status |-> "", url |-> <<>>,
     requests |-> <<>>, result |-> None, saved |-> None, window_open |-> TRUE,
     ret |-> None]

\* on_connect up to run_async_to_main: the two texts are read and checked, then
\* the server info check is handed to the bridge.
OnConnect ==
    /\ call.op = "connect" /\ call.stage = "form"
    /\ LET url == normalize_url(call.server_entry)
           password == call.pass_entry
       IN IF is_empty(url) \/ is_empty(password)
          THEN call' = [call EXCEPT !.login_toasts = Append(@, EnterBoth),
                                    !.stage = "rejected"]
          ELSE call' = [call EXCEPT !.status = "Connecting",
                                    !.url = url,
                                    !.stage = "scheduled"]
    /\ UNCHANGED <<server, chats, chats0, clock, mainPc, pc, batch, raws, now, idx, tx,
                   writer, upsertRes, chan, delivered, sidebar, toasts, commitLog,
                   faults, inline>>

\* The future given to run_async_to_main: the client is built, the server info
\* is requested, and credentials are passed on whatever the answer was.
ServerInfoTask ==
    /\ call.op = "connect" /\ call.stage = "scheduled"
    /\ \/ LET resp == server[ServerInfoUrl(call.url)]
              message == IF ~resp.completed THEN "Saved (server unreachable)"
                         ELSE IF is_success(resp.status) THEN "Connected"
                         ELSE "Saved (server info unavailable)"
          IN call' = [call EXCEPT
                        !.requests = Append(@, ServerInfoUrl(call.url)),
                        !.result = Some(Returned(TRUE, <<call.url, message>>, "")),
                        !.stage = "sent"]
       \/ call' = [call EXCEPT                         \* builder().build() failed
                        !.result = Some(Returned(FALSE, <<>>, "builder error")),
                        !.stage = "sent"]
    /\ UNCHANGED <<server, chats, chats0, clock, mainPc, pc, batch, raws, now, idx, tx,
                   writer, upsertRes, chan, delivered, sidebar, toasts, commitLog,
                   faults, inline>>

\* The callback attached to the receiver: on Ok the credentials are saved (a
\* failed save is only reported), show_main_window runs and the login window
\* closes; on Err the form stays.
ConnectDelivered ==
    /\ call.op = "connect" /\ call.stage = "sent"
    /\ LET res == call.result[1]
       IN \/ /\ res.ok
             /\ \E saved \in BOOLEAN :
                  call' = [call EXCEPT
                            !.status = res.value[2],
                            !.saved = IF saved THEN Some(AppState(res.value[1], call.pass_entry))
                                      ELSE @,
                            !.login_toasts = IF saved THEN @ ELSE Append(@, SaveFailed),
                            !.window_open = FALSE,
                            !.stage = "done"]
             /\ mainPc' = "running"                    \* show_main_window
             /\ \/ \E cached \in GetChats(chats, ListLimit) :
                     /\ sidebar' = IF cached # <<>> THEN cached ELSE sidebar
                     /\ UNCHANGED faults
                \/ Fault /\ UNCHANGED sidebar
             /\ inline' = inline \cup {"get_chats"}
             /\ pc' = [pc EXCEPT ![LoadTask] = "scheduled"]
          \/ /\ ~res.ok
             /\ call' = [call EXCEPT !.status = "Connection failed",
                                     !.login_toasts = Append(@, CouldNotValidate),
                                     !.stage = "failed"]
             /\ UNCHANGED <<mainPc, sidebar, faults, inline, pc>>
    /\ UNCHANGED <<server, chats, chats0, clock, batch, raws, now, idx, tx,
                   writer, upsertRes, chan, delivered, toasts, commitLog>>

\* One call of one function; the server's answers and the table are fixed at
\* the start of the call.
UnitInit ==
    /\ NotStarted
    /\ \/ /\ chats0 = {} /\ chats = chats0
          /\ \E u \in BaseUrls :
               \/ /\ call = PingCall(u)
                  /\ server \in [Range(PingCandidates(u)) -> PingResponses]
               \/ /\ call = ObtainTokenCall(u)
                  /\ server \in [Range(TokenCandidates(u)) -> TokenResponses]
               \/ /\ call = ConversationsCall(u)
                  /\ server \in [{QueryEndpoint(u)} -> ConversationsResponses]
               \/ /\ call = CreateChatCall(u)
                  /\ server \in [{NewChatEndpoint(u)} -> CreateResponses]
               \/ /\ call = ContactsCall(u)
                  /\ server \in [{ContactEndpoint(u)} -> ContactsResponses]
       \/ /\ chats0 \in InitialCaches /\ chats = chats0
          /\ \E server_entry \in ServerEntries, pass_entry \in PassEntries :
               LET url == normalize_url(server_entry)
               IN /\ call = ConnectCall(server_entry, pass_entry)
                  /\ server \in [{ServerInfoUrl(url)} -> ServerInfoResponses(url)]
       \/ /\ chats0 \in Tables /\ chats = chats0
          /\ server = NoServer
          /\ \E limit \in LimitArgs : call = GetChatsCall(limit)

UnitNext ==
    \/ PingSend
    \/ PingExhausted
    \/ ObtainTokenSend
    \/ ObtainTokenExhausted
    \/ ConversationsReturn
    \/ CreateChatReturn
    \/ ContactsReturn
    \/ OnConnect
    \/ ServerInfoTask
    \/ ConnectDelivered
    \/ GetChatsReturn

UnitSpec == UnitInit /\ [][UnitNext]_vars

\* ---------------------------------------------------------------- helpers

Max(S) == CHOOSE x \in S : \A y \in S : y <= x

RECURSIVE ApplyLog(_, _)
\* The table after the logged upsert_chats calls ran one after the other.
ApplyLog(rows, log) ==
    IF log = <<>> THEN rows
    ELSE ApplyLog(UpsertChats(rows, Head(log).chats, Head(log).raws, Head(log).now), Tail(log))

\* The positions of batch cs that write id.
Positions(cs, id) == {i \in 1..Len(cs) : cs[i].id = id}

\* The committed calls that wrote id.
WritersOf(id) == {k \in 1..Len(commitLog) : Positions(commitLog[k].chats, id) # {}}

\* The name the most recent write of id gave: the last entry for id of the last
\* committed batch that lists id, or the name found at start when none did.
LatestNames(id) ==
    IF WritersOf(id) = {}
    THEN {r.name : r \in {q \in chats0 : q.id = id}}
    ELSE LET cs == commitLog[Max(WritersOf(id))].chats
         IN {cs[Max(Positions(cs, id))].name}

\* C1: after any sequence of upserts the cache holds at most one record per id,
\* and its name is the one given by the most recent write for that id (inside
\* one batch the later entry wins).
C1_OneRecordPerIdLatestName ==
    \A r \in chats :
        /\ \A q \in chats : q.id = r.id => q = r
        /\ r.name \in LatestNames(r.id)

\* A batch listing one id twice with two names was committed after another
\* upsert, and the cache holds the later name.
C1_Witness ==
    /\ Len(commitLog) >= 2
    /\ LET cs == commitLog[Len(commitLog)].chats
       IN /\ Len(cs) = 2
          /\ cs[1].id = cs[2].id
          /\ cs[1].name # cs[2].name
          /\ \E r \in chats : r.id = cs[2].id /\ r.name = cs[2].name

\* A commit step that repeats the upsert committed just before it: same
\* conversations, same raw documents, nothing committed in between.
IdenticalUpsert ==
    /\ commitLog # <<>>
    /\ Len(commitLog') = Len(commitLog) + 1
    /\ commitLog'[Len(commitLog')].chats = commitLog[Len(commitLog)].chats
    /\ commitLog'[Len(commitLog')].raws = commitLog[Len(commitLog)].raws

C3_AllOrNothing ==
    [][\/ chats' = chats
       \/ \E t \in Tasks :
            /\ pc[t] = "upsert"
            /\ upsertRes'[t].res = "ok"
            /\ chats' = UpsertChats(chats, batch[t], raws[t], now[t])]_vars

\* One call failed after it had written a record, another transaction holds an
\* uncommitted write, and a create callback is about to read the list.
C3_Witness ==
    /\ \E t \in Tasks : upsertRes[t].res = "failed" /\ upsertRes[t].written >= 1
    /\ \E u \in Tasks : pc[u] = "upsert" /\ idx[u] > 1 /\ tx[u] # chats
    /\ \E v \in CreateTasks : chan[v] # <<>> /\ Head(chan[v]).ok

\* The committed upsert_chats calls made without raw documents: the ones of
\* createConversation.
CreateCommits == {k \in 1..Len(commitLog) : commitLog[k].raws = NoRaws}

\* C4: concurrent creates never leave two records of one id; an id a create
\* wrote has exactly one record.
C4_CreatesNeverDuplicate ==
    \A id \in Ids :
        /\ Cardinality({r \in chats : r.id = id}) <= 1
        /\ (\E k \in CreateCommits : Positions(commitLog[k].chats, id) # {})
               => Cardinality({r \in chats : r.id = id}) = 1

\* Two creates whose responses carried the same id both committed.
C4_Witness ==
    \E j, k \in CreateCommits :
        /\ j < k
        /\ commitLog[j].chats[1].id = commitLog[k].chats[1].id
        /\ \E r \in chats : r.id = commitLog[k].chats[1].id

\* C5: concurrent batches do not interleave. The cache always equals the
\* committed batches applied one after the other, and every call that returned
\* Ok is among them.
C5_BatchesSerialized ==
    /\ chats = ApplyLog(chats0, commitLog)
    /\ Cardinality({t \in Tasks : upsertRes[t].res = "ok"}) = Len(commitLog)

\* The list refresh is in the middle of its batch while a create is inside
\* upsert_chats as well, after an earlier batch committed.
C5_Witness ==
    /\ pc[LoadTask] = "upsert" /\ idx[LoadTask] = 2 /\ Len(batch[LoadTask]) = 2
    /\ \E t \in CreateTasks : pc[t] = "upsert" /\ idx[t] = 1
    /\ commitLog # <<>>

\* The moves of a task: Scheduled -> Running -> terminal result sent -> delivered.
AllowedMoves ==
    { <<"idle", "scheduled">>, <<"scheduled", "running">>, <<"running", "upsert">>,
      <<"running", "sent">>, <<"upsert", "sent">>, <<"sent", "delivered">> }

\* C6: every task handed to the bridge delivers exactly one terminal result to
\* the consumer: at most one message ever exists per task, it is in the
\* channel exactly while the task has finished and was not yet delivered, a
\* task only moves forward, and in the end no task is left between scheduled
\* and delivered (so every scheduled task was delivered).
C6_ExactlyOneResult ==
    /\ [](\A t \in Tasks :
            /\ delivered[t] + Len(chan[t]) = (IF pc[t] \in {"sent", "delivered"} THEN 1 ELSE 0)
            /\ (pc[t] = "delivered") <=> (delivered[t] = 1))
    /\ [][\A t \in Tasks : pc'[t] # pc[t] => <<pc[t], pc'[t]>> \in AllowedMoves]_vars
    /\ <>[](\A t \in Tasks : pc[t] \in {"idle", "delivered"})

\* All three tasks ran and each delivered its one result, a Failed one among them.
C6_Witness ==
    /\ \A t \in Tasks : delivered[t] = 1 /\ chan[t] = <<>>
    /\ toasts # <<>>
    /\ sidebar # <<>>

\* The load callback takes an Ok result from the channel in this step, after
\* the load's upsert_chats call committed.
LoadOkDelivery ==
    /\ chan[LoadTask] # <<>>
    /\ Head(chan[LoadTask]).ok
    /\ upsertRes[LoadTask].res = "ok"
    /\ delivered'[LoadTask] = delivered[LoadTask] + 1

\* C7 as stated: the list the load publishes on success holds every
\* conversation that was cached before the fetch (here: the ones found at start).
C7_PublishesReconciledList ==
    [][LoadOkDelivery =>
        \A r \in chats0 : \E i \in 1..Len(sidebar') : sidebar'[i].id = r.id]_vars

LoadToasts == {i \in 1..Len(toasts) : toasts[i][1] = "Failed to load chats"}

\* The load's remote call failed.
LoadFailed ==
    \/ LoadToasts # {}
    \/ chan[LoadTask] # <<>> /\ ~Head(chan[LoadTask]).ok

\* C8: when the fetch of the load fails, the load writes nothing to the cache,
\* exactly one error reaches the consumer, and the list on display stays.
C8_FailedFetchKeepsCache ==
    /\ [](LoadFailed => upsertRes[LoadTask].res = "none")
    /\ [](/\ Cardinality(LoadToasts) <= 1
          /\ (LoadFailed /\ delivered[LoadTask] = 1) => Cardinality(LoadToasts) = 1)
    /\ [][(~LoadFailed /\ LoadFailed') => chats' = chats /\ sidebar' = sidebar]_vars
    /\ [][(LoadFailed /\ delivered'[LoadTask] # delivered[LoadTask]) =>
            /\ chats' = chats
            /\ sidebar' = sidebar
            /\ toasts' = Append(toasts, <<"Failed to load chats", Head(chan[LoadTask]).err>>)]_vars

\* The load failed and its error was shown while the list read from the cache
\* at start is still on display.
C8_Witness ==
    /\ Cardinality(LoadToasts) = 1
    /\ delivered[LoadTask] = 1
    /\ sidebar # <<>>
    /\ sidebar \in GetChats(chats0, ListLimit)
    /\ \A t \in CreateTasks : delivered[t] = 0

\* C9 as stated: a cache write that failed after a successful remote call is
\* reported to the consumer once the result was delivered.
C9_StorageFailureReported ==
    \A t \in Tasks :
        (delivered[t] = 1 /\ upsertRes[t].res = "failed")
            => \E i \in 1..Len(toasts) : toasts[i][2] \in StorageErrors

\* The create callback takes a result from the channel in this step.
CreateDelivery(t) == chan[t] # <<>> /\ delivered'[t] = delivered[t] + 1

\* C10: a create whose remote call succeeded calls upsert_chats with the one
\* result before it reports (a committed upsert leaves a record of that id),
\* and its callback publishes listCached(200) as read at that moment; a create
\* whose remote call failed never calls upsert_chats, its callback shows the
\* error and changes neither the cache nor the list.
C10_CreateUpsertsThenRepublishes ==
    /\ [](\A t \in CreateTasks : chan[t] # <<>> =>
            IF Head(chan[t]).ok
            THEN /\ upsertRes[t].res # "none"
                 /\ upsertRes[t].res = "ok" =>
                        \E r \in chats : r.id = Head(chan[t]).items[1].id
            ELSE upsertRes[t].res = "none")
    /\ [][\A t \in CreateTasks : CreateDelivery(t) =>
            IF Head(chan[t]).ok
            THEN /\ chats' = chats /\ toasts' = toasts
                 /\ faults' = faults => sidebar' \in GetChats(chats, ListLimit)
            ELSE /\ chats' = chats /\ sidebar' = sidebar
                 /\ toasts' = Append(toasts, <<"Failed to create chat", Head(chan[t]).err>>)]_vars

\* One create succeeded, was upserted and the whole cached list was published;
\* another create failed and its error was shown.
C10_Witness ==
    /\ \E t \in CreateTasks : delivered[t] = 1 /\ upsertRes[t].res = "ok"
    /\ Len(sidebar) >= 2
    /\ sidebar \in GetChats(chats, ListLimit)
    /\ \E i \in 1..Len(toasts) : toasts[i][1] = "Failed to create chat"


\* C11: the steps of one loadConversations come strictly in the order read
\* cache, background fetch, upsert, republish. The load is handed to the bridge
\* only in the step of show_main_window that has read the cache (and shown it);
\* nothing of its upsert exists before the fetch returned; its task only moves
\* forward; and when the callback takes the refreshed result, the upsert_chats
\* call of that load has returned and holds no transaction any more.
C11_LoadStepsInOrder ==
    /\ [](pc[LoadTask] # "idle" => mainPc = "running" /\ "get_chats" \in inline)
    /\ [][(pc[LoadTask] = "idle" /\ pc'[LoadTask] # "idle") =>
            /\ mainPc = "start" /\ pc'[LoadTask] = "scheduled"
            /\ (sidebar' = sidebar \/ sidebar' \in GetChats(chats, ListLimit))]_vars
    /\ [](pc[LoadTask] \in {"idle", "scheduled", "running"} =>
            /\ upsertRes[LoadTask].res = "none"
            /\ batch[LoadTask] = <<>> /\ writer # LoadTask
            /\ chan[LoadTask] = <<>> /\ delivered[LoadTask] = 0)
    /\ [][pc'[LoadTask] # pc[LoadTask] => <<pc[LoadTask], pc'[LoadTask]>> \in AllowedMoves]_vars
    /\ [][delivered'[LoadTask] # delivered[LoadTask] =>
            /\ pc[LoadTask] = "sent"
            /\ Head(chan[LoadTask]).ok =>
                  /\ upsertRes[LoadTask].res \in {"ok", "failed"}
                  /\ batch[LoadTask] = <<>> /\ writer # LoadTask]_vars

\* The cached list was shown at start, the fetch returned, the load's upsert
\* committed while a create was inside upsert_chats, and the refreshed result
\* was delivered.
C11_Witness ==
    /\ chats0 # {}
    /\ delivered[LoadTask] = 1
    /\ upsertRes[LoadTask].res = "ok"
    /\ sidebar # <<>>
    /\ \E t \in CreateTasks : pc[t] = "upsert"

\* C12 as stated: the main context never makes a blocking network or cache
\* store call itself.
C12_NoInlineBlockingCalls == inline = {}

\* C18 as stated: a record that carries a raw document carries the one its id
\* and name were projected from.
C18_RawPayloadMatchesRecord ==
    \A r \in chats : r.raw_json # NullRaw =>
        /\ ItemId(r.raw_json[1]) = r.id
        /\ ItemName(r.raw_json[1]) = r.name

\* The kind of a liveness-check URL: the versioned ping path, the unversioned
\* ping path, or a URL that is no ping path.
PingKind(endpoint) ==
    IF ends_with(endpoint, "/ping")
    THEN IF Len(endpoint) >= 2 /\ endpoint[Len(endpoint) - 1] = "/v1"
         THEN "versioned" ELSE "unversioned"
    ELSE "bare"

PingOrder == <<"versioned", "unversioned", "bare">>

\* C13: ping requests its candidates in the order versioned ping path,
\* unversioned ping path, bare base URL; a candidate is requested only after
\* every earlier one failed to complete; the call returns the status of the
\* first candidate that completes, whatever the status, at once, so that no
\* candidate is requested after it.
C13_FirstReachedCandidateWins ==
    call.op = "ping" =>
        LET n == Len(call.requests)
        IN /\ n <= 3
           /\ \A k \in 1..n : PingKind(call.requests[k]) = PingOrder[k]
           /\ n = 3 => /\ ~ends_with(call.requests[3], "/")
                       /\ call.requests[3] =
                            SubSeq(call.requests[1], 1, Len(call.requests[3]))
           /\ \A k \in 1..(n - 1) : ~server[call.requests[k]].completed
           /\ (call.ret # None /\ call.ret[1].ok) =>
                /\ n >= 1
                /\ server[call.requests[n]].completed
                /\ call.ret[1].value = server[call.requests[n]].status
           /\ (n >= 1 /\ server[call.requests[n]].completed) =>
                call.ret # None /\ call.ret[1].ok

\* Only the bare base URL answered, with a status that is no success, and the
\* call returned it after the two ping paths had failed.
C13_Witness ==
    /\ call.op = "ping"
    /\ Len(call.requests) = 3
    /\ call.ret = Some(Returned(TRUE, 404, ""))
    /\ ~server[call.requests[1]].completed
    /\ ~server[call.requests[2]].completed

\* C14: ping fails if and only if none of its candidates completes, and the
\* error it returns is the transport error of the last candidate requested.
C14_FailsOnlyWhenNoneCompletes ==
    (call.op = "ping" /\ call.ret # None) =>
        /\ ~call.ret[1].ok <=> \A e \in DOMAIN server : ~server[e].completed
        /\ ~call.ret[1].ok =>
             /\ Len(call.requests) = 3
             /\ PingKind(call.requests[3]) = "bare"
             /\ call.ret[1].err = server[call.requests[3]].err

\* All three candidates failed, the first and the last with different errors.
C14_Witness ==
    /\ call.op = "ping" /\ call.ret # None
    /\ ~call.ret[1].ok
    /\ server[call.requests[1]].err # server[call.requests[3]].err

\* A response that yields a token: success status, a JSON body, a string under
\* `token` or `accessToken`.
HasToken(resp) ==
    /\ resp.completed
    /\ resp.status \in 200..299
    /\ resp.body.decodes
    /\ \/ resp.body.token \notin {Absent, JNull}
       \/ resp.body.accessToken \notin {Absent, JNull}

\* The last pieces of the four login-style URLs, in the order they are tried.
TokenOrder == << <<"/v1", "/login">>, <<"/v1", "/auth">>, <<"/api", "/login">>, <<"/api", "/auth">> >>

LastTwo(endpoint) == SubSeq(endpoint, Len(endpoint) - 1, Len(endpoint))

\* C15: obtain_token requests its four candidates in fixed order and returns
\* the token of the earliest candidate whose response yields one, `token`
\* before `accessToken`; no candidate is requested after that one.
C15_EarliestTokenWins ==
    call.op = "obtain_token" =>
        LET n == Len(call.requests)
        IN /\ n <= 4
           /\ \A k \in 1..n : LastTwo(call.requests[k]) = TokenOrder[k]
           /\ \A k \in 1..(n - 1) : ~HasToken(server[call.requests[k]])
           /\ (call.ret # None /\ call.ret[1].ok) =>
                /\ n >= 1
                /\ HasToken(server[call.requests[n]])
                /\ LET body == server[call.requests[n]].body
                   IN call.ret[1].value =
                        IF body.token \notin {Absent, JNull} THEN body.token
                        ELSE body.accessToken
           /\ (n >= 1 /\ HasToken(server[call.requests[n]])) =>
                call.ret # None /\ call.ret[1].ok

\* The third candidate answered with both keys and `token` was returned, after
\* an earlier candidate had answered success without a usable token.
C15_Witness ==
    /\ call.op = "obtain_token"
    /\ Len(call.requests) = 3
    /\ call.ret = Some(Returned(TRUE, "T1", ""))
    /\ server[call.requests[3]].body.accessToken = "T2"
    /\ \E k \in 1..2 : /\ server[call.requests[k]].status = 200
                       /\ server[call.requests[k]].body.decodes

\* The error observed for a candidate that yields no token.
ObservedError(resp) ==
    IF ~resp.completed THEN resp.err
    ELSE IF resp.status \notin 200..299 THEN HttpError(resp.status)
    ELSE IF ~resp.body.decodes THEN DecodeError
    ELSE "Token not found in response"

\* C16: obtain_token fails exactly when no candidate yields a token, and the
\* error it reports is the one observed for the last candidate of the list.
C16_ReportsLastCandidateError ==
    (call.op = "obtain_token" /\ call.ret # None) =>
        /\ ~call.ret[1].ok <=> \A e \in DOMAIN server : ~HasToken(server[e])
        /\ ~call.ret[1].ok =>
             /\ Len(call.requests) = 4
             /\ LastTwo(call.requests[4]) = TokenOrder[4]
             /\ call.ret[1].err = ObservedError(server[call.requests[4]])

\* The call failed with "token not found" of the last candidate although the
\* first candidate had failed to connect and another had answered 401.
C16_Witness ==
    /\ call.op = "obtain_token" /\ call.ret # None
    /\ ~call.ret[1].ok
    /\ call.ret[1].err = "Token not found in response"
    /\ ~server[call.requests[1]].completed
    /\ \E k \in 2..3 : server[call.requests[k]].status = 401

\* n <= limit for a usize limit
AtMost(n, limit) == limit.hi = 1 \/ n <= limit.lo

\* C17: for every table and every limit, get_chats returns at most limit
\* records of the table, each once, sorted by updated_at descending and then by
\* name ascending, and they are the first limit records of the whole table in
\* that order (no record left out sorts before a returned one); without a
\* limit the limit is 500.
C17_ListCachedSortedAndTruncated ==
    (call.op = "get_chats" /\ call.ret # None /\ call.ret[1].ok) =>
        LET list == call.ret[1].value
            limit == IF call.limit = None THEN Usize(0, 500) ELSE call.limit[1]
            rowAt(i) == CHOOSE r \in chats : r.id = list[i].id
            listed == {rowAt(i) : i \in 1..Len(list)}
        IN /\ AtMost(Len(list), limit)
           /\ \A i \in 1..Len(list) :
                /\ \E r \in chats : r.id = list[i].id
                /\ list[i].name = rowAt(i).name
           /\ \A i, j \in 1..Len(list) : i < j =>
                /\ list[i].id # list[j].id
                /\ \/ rowAt(i).updated_at > rowAt(j).updated_at
                   \/ /\ rowAt(i).updated_at = rowAt(j).updated_at
                      /\ NameRank(list[i].name) <= NameRank(list[j].name)
           /\ \/ Len(list) = Cardinality(chats)
              \/ limit.hi = 0 /\ Len(list) = limit.lo
           /\ \A r \in chats \ listed, l \in listed :
                ~ \/ r.updated_at > l.updated_at
                  \/ /\ r.updated_at = l.updated_at
                     /\ NameRank(r.name) < NameRank(l.name)

\* A table of three records was listed with limit 2: the two returned tie on
\* updated_at and come in name order, the older record is cut off.
C17_Witness ==
    /\ call.op = "get_chats" /\ call.ret # None /\ call.ret[1].ok
    /\ call.limit = Some(Usize(0, 2))
    /\ Cardinality(chats) = 3
    /\ LET list == call.ret[1].value
       IN /\ Len(list) = 2
          /\ list[1].name = "Alice" /\ list[2].name = "Bob"
          /\ \A r \in chats : r.id \in {list[1].id, list[2].id} <=> r.updated_at = 2

NoKey == JField("absent", <<>>)

\* The three shapes a response may hold item array a in.
BareArray(a) == Json("array", a, NoKey, NoKey)
UnderChats(a) == Json("object", <<>>, JField("array", a), NoKey)
UnderData(a) == Json("object", <<>>, NoKey, JField("array", a))

\* The conversations call returned for a success response with JSON body j.
ParsedBody(j) ==
    /\ call.op = "conversations" /\ call.ret # None
    /\ server[call.endpoint] = Response(200, Decoded(j))

\* C19: whether the item array comes bare, under `chats` or under `data`,
\* conversations returns what it returns for the bare array; for the one item
\* {id "1", name "Alice"} that is [Conversation{id "1", name "Alice"}].
C19_SameListForThreeShapes ==
    \A a \in ItemArrays :
        (ParsedBody(BareArray(a)) \/ ParsedBody(UnderChats(a)) \/ ParsedBody(UnderData(a))) =>
            /\ call.ret[1] = conversations(Response(200, Decoded(BareArray(a))))
            /\ a = <<Item("1", "Alice", Absent, Absent, Absent)>> =>
                 /\ call.ret[1].ok
                 /\ call.ret[1].value.out = <<Conversation("1", "Alice")>>

\* The body {"data": [{"id":"1","name":"Alice"}]} was parsed to the one
\* conversation.
C19_Witness ==
    /\ ParsedBody(UnderData(<<Item("1", "Alice", Absent, Absent, Absent)>>))
    /\ call.ret[1].value.out = <<Conversation("1", "Alice")>>

\* An upstream item with a non-empty string under `id`.
HasId(item) == item.id \notin {Absent, JNull, ""}

\* C20: the raw list conversations returns holds every upstream item; the
\* projected list holds exactly the items with a non-empty id, in upstream
\* order, and never a Conversation with an empty id.
C20_DropsItemsWithoutId ==
    \A a \in ItemArrays :
        (ParsedBody(BareArray(a)) \/ ParsedBody(UnderChats(a)) \/ ParsedBody(UnderData(a))) =>
            LET out == call.ret[1].value.out
                kept == SelectSeq(a, HasId)
            IN /\ call.ret[1].ok
               /\ call.ret[1].value.items = a
               /\ Len(out) = Len(kept)
               /\ \A k \in 1..Len(out) : out[k].id = kept[k].id /\ out[k].id # ""

\* An item without id came before an item with id: one conversation, two raw
\* documents.
C20_Witness ==
    /\ call.op = "conversations" /\ call.ret # None /\ call.ret[1].ok
    /\ Len(call.ret[1].value.items) = 2
    /\ call.ret[1].value.items[1].id = Absent
    /\ call.ret[1].value.out = <<Conversation("1", "Alice")>>

\* The create_chat call returned for a success response with a JSON body.
CreatedFrom(body) ==
    /\ call.op = "create_chat" /\ call.ret # None
    /\ server[call.endpoint] = Response(200, body)
    /\ body.decodes

\* C21 as stated: for a success response create_chat fails only if neither
\* `guid` nor `id` holds a non-empty string; when one of them does, the call
\* succeeds with a non-empty id.
C21_IdFromGuidOrId ==
    (call.op = "create_chat" /\ call.ret # None) =>
        LET body == server[call.endpoint].body
        IN /\ call.ret[1].ok => call.ret[1].value.id # ""
           /\ CreatedFrom(body) =>
                (call.ret[1].ok <=>
                    \/ body.guid \notin {Absent, JNull, ""}
                    \/ body.id \notin {Absent, JNull, ""})

\* The first of the given fields that holds a non-empty string, "" when none does.
RECURSIVE FirstString(_)
FirstString(fields) ==
    IF fields = <<>> THEN ""
    ELSE IF Head(fields) \notin {Absent, JNull, ""} THEN Head(fields)
    ELSE FirstString(Tail(fields))

\* The address of an upstream entry, through the four fallback fields.
AddressOf(c) == FirstString(<<c.address, c.phone, c.email, c.id>>)
\* Its display name, through the two fallback fields.
DisplayNameOf(c) == FirstString(<<c.displayName, c.name>>)

HasAddress(c) == AddressOf(c) # ""

\* The contacts call returned for a success response holding array a, bare or
\* under `data`.
ContactsParsed(a) ==
    /\ call.op = "contacts" /\ call.ret # None
    /\ \/ server[call.endpoint] = Response(200, Decoded(BareArray(a)))
       \/ server[call.endpoint] = Response(200, Decoded(UnderData(a)))

\* C22 as stated: contacts returns one entry for exactly the upstream entries
\* with a non-empty address, in upstream order, never one with an empty
\* address; the label is "name (address)" when the entry has a display name
\* and the address alone otherwise.
C22_ContactsWithAddress ==
    \A a \in ContactArrays : ContactsParsed(a) =>
        LET out == call.ret[1].value
            kept == SelectSeq(a, HasAddress)
        IN /\ call.ret[1].ok
           /\ Len(out) = Len(kept)
           /\ \A k \in 1..Len(out) :
                /\ out[k].address # ""
                /\ out[k].address = AddressOf(kept[k])
                /\ out[k].label =
                     IF DisplayNameOf(kept[k]) = "" THEN <<AddressOf(kept[k])>>
                     ELSE <<DisplayNameOf(kept[k]), " (", AddressOf(kept[k]), ")">>

\* The ids stored in a table.
IdsOf(rows) == {r.id : r \in rows}

\* C23: no step of the program (initialize, the cache reads, every step of an
\* upsert whether it commits or fails, the load and the creates with their
\* callbacks) removes an id from the cache.
C23_NeverDeletes == [][IdsOf(chats) \subseteq IdsOf(chats')]_vars

\* A record found at start is still there, next to a created one, after a load
\* whose upsert failed half-way, a committed create and a failed create.
C23_Witness ==
    /\ chats0 # {}
    /\ IdsOf(chats0) \subseteq IdsOf(chats)
    /\ Cardinality(IdsOf(chats)) = 2
    /\ upsertRes[LoadTask].res = "failed" /\ upsertRes[LoadTask].written >= 1
    /\ delivered[LoadTask] = 1
    /\ \E t \in CreateTasks : upsertRes[t].res = "ok"
    /\ \E i \in 1..Len(toasts) : toasts[i][1] = "Failed to create chat"

\* C26: a committed upsert leaves, for every id of its batch, one record that
\* has the batch's (last) name for that id, the call's timestamp and the raw
\* document handed in at that position, all three replaced together; when the
\* call was given no raw documents the record has no raw document, whether the
\* id existed before (with a document or not) or is new.
C26_OverwritesAllColumns ==
    [][\A t \in Tasks : (pc[t] = "upsert" /\ upsertRes'[t].res = "ok") =>
          \A i \in 1..Len(batch[t]) :
              LET id == batch[t][i].id
                  last == Max(Positions(batch[t], id))
                  written == {r \in chats' : r.id = id}
              IN /\ Cardinality(written) = 1
                 /\ \A r \in written :
                      /\ r.name = batch[t][last].name
                      /\ r.updated_at = now[t]
                      /\ r.raw_json = IF raws[t] = NoRaws THEN NullRaw
                                      ELSE <<raws[t][2][last]>>]_vars

\* A create overwrote a record that a conversation sync had stored with its
\* raw document: the record now has the create's name and no raw document.
C26_Witness ==
    \E j, k \in 1..Len(commitLog) :
        /\ j < k /\ k = Len(commitLog)
        /\ commitLog[j].raws # NoRaws /\ commitLog[k].raws = NoRaws
        /\ commitLog[j].chats # <<>>
        /\ commitLog[j].chats[1].id = commitLog[k].chats[1].id
        /\ commitLog[j].chats[1].name # commitLog[k].chats[1].name
        /\ \E r \in chats : /\ r.id = commitLog[k].chats[1].id
                             /\ r.name = commitLog[k].chats[1].name
                             /\ r.raw_json = NullRaw

NoRepeats(s) == \A i, j \in 1..Len(s) : i # j => s[i] # s[j]

\* The number of candidates of a resolver call.
ListLength == IF call.op = "ping" THEN 3 ELSE 4

ResolverCall == call.op \in {"ping", "obtain_token"}

\* C24: a call of ping makes at most 3 requests and a call of obtain_token at
\* most 4, no URL twice; every step of a call makes one more request or
\* returns, and a call that has not returned can always take such a step, so
\* the call ends after at most 3 respectively 4 requests.
C24_NoRetryBeyondList ==
    /\ [](ResolverCall =>
            /\ Len(call.requests) <= ListLength
            /\ NoRepeats(call.requests)
            /\ call.ret = None => ENABLED UnitNext)
    /\ [][ResolverCall =>
            /\ call.ret = None
            /\ \/ Len(call'.requests) = Len(call.requests) + 1
               \/ call'.ret # None /\ call'.requests = call.requests]_vars

\* A call of obtain_token returned its error after exactly four requests.
C24_Witness ==
    /\ call.op = "obtain_token"
    /\ call.ret # None /\ ~call.ret[1].ok
    /\ Len(call.requests) = 4
    /\ NoRepeats(call.requests)

\* A decoded body that holds no item array in any of the three places.
ShapeMismatch(j) ==
    /\ j.kind # "array"
    /\ ~(j.kind = "object" /\ (j.chats.t = "array" \/ j.data.t = "array"))

\* C25 as stated: for a success response whose body cannot be parsed or has
\* none of the three shapes, conversations fails (with a decode error) and
\* does not return a successful empty list.
C25_ShapeMismatchIsDecodeError ==
    (call.op = "conversations" /\ call.ret # None) =>
        LET resp == server[call.endpoint]
        IN (/\ resp.completed
            /\ resp.status \in 200..299
            /\ ~resp.body.decodes \/ ShapeMismatch(resp.body.json))
                => ~call.ret[1].ok /\ call.ret[1].err = DecodeError

\* The name of an upstream item through the four fallback fields.
NameOf(item) ==
    LET n == FirstString(<<item.name, item.display_name, item.title, item.displayName>>)
    IN IF n = "" THEN "Chat" ELSE n

\* C27 as stated: the name of every projected Conversation is the string of the
\* first of name, display_name, title, displayName that holds one, and "Chat"
\* only when none of the four does.
C27_NameThroughFallback ==
    \A a \in ItemArrays :
        (ParsedBody(BareArray(a)) \/ ParsedBody(UnderChats(a)) \/ ParsedBody(UnderData(a))) =>
            LET out == call.ret[1].value.out
                kept == SelectSeq(a, HasId)
            IN /\ Len(out) = Len(kept)
               /\ \A k \in 1..Len(out) : out[k].name = NameOf(kept[k])

\* The text of an entry holds nothing but blanks.
BlankText(text) == trim(text) = <<>>

\* C28 as stated: a connect attempt with an empty or whitespace-only server URL,
\* or with an empty password, is rejected with the "Please enter server URL and
\* password." notice before any task is scheduled: nothing is requested, no
\* credentials are saved and the main window is not opened.
C28_BlankConnectRejected ==
    (/\ call.op = "connect" /\ call.stage # "form"
     /\ BlankText(call.server_entry) \/ is_empty(call.pass_entry)) =>
        /\ call.stage = "rejected"
        /\ call.login_toasts = <<EnterBoth>>
        /\ call.requests = <<>> /\ call.result = None
        /\ call.saved = None
        /\ mainPc = "start" /\ call.window_open

====
